---- MODULE Spec2Model ----
(***************************************************************************)
(* Smart File Converter (src/app.py): a Streamlit script that is re-run    *)
(* from top to bottom on every user interaction.  One run ("pass") loops   *)
(* over the uploaded files: extension check, read, empty check, optional   *)
(* cleaning and chart, optional conversion, and one aggregate message.     *)
(*                                                                         *)
(* Text (file names, extensions, radio labels) is a sequence of one-       *)
(* character strings, so that lower(), splitext() and replace() are        *)
(* computed character by character.  A table cell is a string token.       *)
(***************************************************************************)
EXTENDS Naturals, Sequences, FiniteSets, TLC

VARIABLES
    uploaded_files,    \* the batch returned by st.file_uploader
    checked,           \* session state: widget ids of the ticked checkboxes
    radio,             \* session state: radio key -> chosen label
    clicked,           \* the button id whose click triggered this run, or NoWidget
    widgets_this_run,  \* widget ids registered so far by the current run
    pc,                \* position of the script
    i,                 \* index of `file` in the for loop
    df,                \* the script's variable df
    file_processed,    \* the script's flag
    out,               \* elements written to the page by the current run
    read_calls,        \* indices of the files a pandas reader was called on
    actions            \* number of user interactions so far

vars == << uploaded_files, checked, radio, clicked, widgets_this_run, pc, i, df,
           file_processed, out, read_calls, actions >>

(***************************************************************************)
(* Bounds of the model.                                                    *)
(***************************************************************************)
MaxFiles == 2         \* longest batch drawn from the pool of files
MaxRows == 3          \* most rows of a generated table
MaxActions == 3       \* user interactions after the upload

(***************************************************************************)
(* Text.                                                                   *)
(***************************************************************************)
UpperCase == << "A","B","C","D","E","F","G","H","I","J","K","L","M",
                "N","O","P","Q","R","S","T","U","V","W","X","Y","Z" >>
LowerCase == << "a","b","c","d","e","f","g","h","i","j","k","l","m",
                "n","o","p","q","r","s","t","u","v","w","x","y","z" >>

to_lower == [c \in { UpperCase[k] : k \in DOMAIN UpperCase } |->
                LowerCase[CHOOSE k \in DOMAIN UpperCase : UpperCase[k] = c]]

lower_char(c) == IF c \in DOMAIN to_lower THEN to_lower[c] ELSE c

\* str.lower()
lower(s) == [k \in DOMAIN s |-> lower_char(s[k])]

\* os.path.splitext(p)[-1] for a name without directory separators: the text
\* from the last dot on, unless only dots (or nothing) come before that dot.
splitext_ext(p) ==
    LET dots == {k \in DOMAIN p : p[k] = "."}
    IN  IF dots = {} THEN << >>
        ELSE LET d == CHOOSE k \in dots : \A j \in dots : j <= k
             IN  IF \A k \in 1..(d - 1) : p[k] = "." THEN << >>
                 ELSE SubSeq(p, d, Len(p))

\* os.path.splitext(p)[0]
splitext_root(p) == SubSeq(p, 1, Len(p) - Len(splitext_ext(p)))

StartsWith(s, old) ==
    /\ Len(old) <= Len(s)
    /\ SubSeq(s, 1, Len(old)) = old

\* str.replace(old, new) for a non-empty old: every non-overlapping occurrence,
\* found from the left, is replaced.
RECURSIVE str_replace(_, _, _)
str_replace(s, old, new) ==
    IF s = << >> THEN << >>
    ELSE IF StartsWith(s, old)
         THEN new \o str_replace(SubSeq(s, Len(old) + 1, Len(s)), old, new)
         ELSE << Head(s) >> \o str_replace(Tail(s), old, new)

dot_csv  == << ".", "c", "s", "v" >>
dot_xlsx == << ".", "x", "l", "s", "x" >>
dot_json == << ".", "j", "s", "o", "n" >>
dot_txt  == << ".", "t", "x", "t" >>

SUPPORTED_TYPES == { dot_csv, dot_xlsx, dot_json, dot_txt }

\* the labels of the st.radio options
CSV   == << "C", "S", "V" >>
Excel == << "E", "x", "c", "e", "l" >>
JSON  == << "J", "S", "O", "N" >>
TXT   == << "T", "X", "T" >>
conversion_options == << CSV, Excel, JSON, TXT >>

\* variant: the extension is compared in the case it was typed in
file_extension_case_kept(name) == splitext_ext(name)

\* file_extension of the loop body
file_extension_of(name) == lower(splitext_ext(name))

\* file_name of the download
file_name_of(name, conversion_type) ==
    IF conversion_type = Excel
    THEN str_replace(name, file_extension_of(name), dot_xlsx)
    ELSE str_replace(name, file_extension_of(name), << "." >> \o lower(conversion_type))

(***************************************************************************)
(* Tables (pandas DataFrame): column names, one dtype per column, rows in  *)
(* order.  Null is a missing cell (NaN), Nested a list or dict cell as     *)
(* read_json yields for a nested document, NumCells the numbers.           *)
(***************************************************************************)
Null == "NaN"
Nested == "[obj]"
Missing == "Missing"
NumCells == { "1", "2" }

Table(columns, dtypes, rows) == [columns |-> columns, dtypes |-> dtypes, rows |-> rows]

Cols(t) == DOMAIN t.columns

\* dtype inference of the readers: a column of numbers and gaps is numeric
infer_dtype(rows, c) ==
    IF \A r \in DOMAIN rows : rows[r][c] \in NumCells \cup {Null}
    THEN "number" ELSE "object"

\* variant: only a table without columns counts as empty
df_empty_columns_only(t) == Len(t.columns) = 0

\* df.empty
df_empty(t) == Len(t.rows) = 0 \/ Len(t.columns) = 0

\* hashing a list or dict cell raises TypeError
unhashable(t) == \E r \in DOMAIN t.rows : \E c \in Cols(t) : t.rows[r][c] = Nested

\* variant: keep="last", a row is marked when a later row equals it
duplicated_keep_last(t) ==
    [r \in DOMAIN t.rows |-> \E j \in (r + 1)..Len(t.rows) : t.rows[j] = t.rows[r]]

\* df.duplicated(): a row is marked when an earlier row equals it
duplicated(t) == [r \in DOMAIN t.rows |-> \E j \in 1..(r - 1) : t.rows[j] = t.rows[r]]

\* df.duplicated().sum()
duplicated_sum(t) == Cardinality({r \in DOMAIN t.rows : duplicated(t)[r]})

RECURSIVE keep_unmarked(_, _, _)
keep_unmarked(rows, marks, r) ==
    IF r > Len(rows) THEN << >>
    ELSE (IF marks[r] THEN << >> ELSE << rows[r] >>) \o keep_unmarked(rows, marks, r + 1)

drop_first_kept(t) == keep_unmarked(t.rows, duplicated(t), 1)

\* df.drop_duplicates(inplace=True): the unmarked rows, in order; dtypes kept
drop_duplicates(t) == Table(t.columns, t.dtypes, drop_first_kept(t))

\* df.isnull().sum().sum()
isnull_sum(t) ==
    Cardinality({rc \in (DOMAIN t.rows) \X Cols(t) : t.rows[rc[1]][rc[2]] = Null})

fill_cell(cell, value) == IF cell = Null THEN value ELSE cell

\* variant: only the text columns are filled
fillna_text_columns_only(t, value) ==
    Table(t.columns, t.dtypes,
          [r \in DOMAIN t.rows |-> [c \in Cols(t) |->
              IF t.dtypes[c] = "object" THEN fill_cell(t.rows[r][c], value)
              ELSE t.rows[r][c]]])

\* df.fillna(value, inplace=True): every null cell takes the value; a numeric
\* column that had a gap now holds text and becomes an object column
fillna(t, value) ==
    Table(t.columns,
          [c \in Cols(t) |->
              IF t.dtypes[c] = "number" /\ \E r \in DOMAIN t.rows : t.rows[r][c] = Null
              THEN "object" ELSE t.dtypes[c]],
          [r \in DOMAIN t.rows |-> [c \in Cols(t) |-> fill_cell(t.rows[r][c], value)]])

\* df.select_dtypes(include="number")
select_dtypes_number(t) ==
    LET idx  == [c \in Cols(t) |-> c]
        IsNum(c) == t.dtypes[c] = "number"
        keep == SelectSeq(idx, IsNum)
    IN  Table([k \in DOMAIN keep |-> t.columns[keep[k]]],
              [k \in DOMAIN keep |-> "number"],
              [r \in DOMAIN t.rows |-> [k \in DOMAIN keep |-> t.rows[r][keep[k]]]])

(***************************************************************************)
(* Serialisation.  The body of an artifact is the header followed by the   *)
(* rows, each cell written the way the target format writes it.            *)
(***************************************************************************)
csv_cell(cell) == IF cell = Null THEN "" ELSE cell

\* df.to_csv(buffer, sep=..., index=False)
to_csv(t, sep) ==
    << << sep >> \o t.columns >> \o
    [r \in DOMAIN t.rows |-> [c \in Cols(t) |-> csv_cell(t.rows[r][c])]]

json_cell(cell) ==
    IF cell = Null THEN << "null" >>
    ELSE IF cell \in NumCells \cup {Nested} THEN << cell >>
    ELSE << "\"", cell, "\"" >>

\* df.to_json(orient="records", indent=4): one record per row, keyed by column
to_json(t) ==
    [r \in DOMAIN t.rows |->
        [c \in Cols(t) |-> << t.columns[c], json_cell(t.rows[r][c]) >>]]

\* openpyxl cannot store a list or dict cell: ValueError
to_excel_raises(t) == unhashable(t)

\* df.to_excel(writer, index=False)
to_excel(t) ==
    << << "xlsx" >> \o t.columns >> \o
    [r \in DOMAIN t.rows |-> [c \in Cols(t) |-> csv_cell(t.rows[r][c])]]

\* the body of the try of the conversion: whether it raises, the buffer, the mime
convert(t, conversion_type) ==
    IF conversion_type = CSV
    THEN [raised |-> FALSE, error |-> "", data |-> to_csv(t, ","), mime |-> "text/csv"]
    ELSE IF conversion_type = Excel
    THEN IF to_excel_raises(t)
         THEN [raised |-> TRUE, error |-> "ValueError", data |-> << >>, mime |-> ""]
         ELSE [raised |-> FALSE, error |-> "", data |-> to_excel(t),
               mime |-> "application/vnd.openxmlformats-officedocument.spreadsheetml.sheet"]
    ELSE IF conversion_type = JSON
    THEN [raised |-> FALSE, error |-> "", data |-> to_json(t), mime |-> "application/json"]
    ELSE [raised |-> FALSE, error |-> "", data |-> to_csv(t, "\t"), mime |-> "text/plain"]

(***************************************************************************)
(* Uploaded files.  The content of a file is what the pandas reader chosen *)
(* by its extension makes of its bytes: an exception, or columns and rows. *)
(***************************************************************************)
UploadedFile(name, content) == [name |-> name, content |-> content]

Garbage == [parses |-> FALSE, columns |-> << >>, rows |-> << >>]
Data(columns, rows) == [parses |-> TRUE, columns |-> columns, rows |-> rows]

\* pd.read_csv / pd.read_excel / pd.read_json
pd_read(content) ==
    [raised |-> ~content.parses,
     error |-> "ParserError",
     df |-> Table(content.columns,
                  [c \in DOMAIN content.columns |-> infer_dtype(content.rows, c)],
                  content.rows)]

\* the try block that reads the file: one reader per supported extension
read_file(file_extension, content) ==
    IF file_extension = dot_csv THEN pd_read(content)
    ELSE IF file_extension = dot_xlsx THEN pd_read(content)
    ELSE IF file_extension = dot_json THEN pd_read(content)
    ELSE pd_read(content)

NoTable == Table(<< >>, << >>, << >>)

(***************************************************************************)
(* Widgets.  Streamlit identifies a widget by its key, or by its kind and  *)
(* label when no key is given, and raises when one run registers the same  *)
(* identity twice.                                                         *)
(***************************************************************************)
NoWidget == << "none", << >> >>
remove_duplicates_box(name) == << "Remove Duplicates from", name >>
fill_missing_box(name) == << "Fill Missing Values for", name >>
show_chart_box(name) == << "Show Chart for", name >>
convert_radio(name) == << "radio key", name >>
convert_button(name) == << "Convert", name >>
download_button(file_name) == << "Download", file_name >>

\* the element written to the page: its kind, the file it is about, a count
\* and a payload (a table's rows, or an artifact's file name, bytes and mime)
Element(kind, idx, n, data) ==
    [kind |-> kind, idx |-> idx, name |-> uploaded_files[idx].name, n |-> n, data |-> data]

file == uploaded_files[i]
file_extension == file_extension_of(file.name)
InLoop == pc = "file" /\ i <= Len(uploaded_files)
Stopped == pc \in { "idle", "crashed" }

\* the widgets the statement at pc is about to register
next_widgets ==
    IF pc = "dedup" THEN { remove_duplicates_box(file.name) }
    ELSE IF pc = "fill" THEN { fill_missing_box(file.name) }
    ELSE IF pc = "chart" THEN { show_chart_box(file.name) }
    ELSE IF pc = "convert" THEN { convert_radio(file.name), convert_button(file.name) }
    ELSE { }

duplicate_widget == next_widgets \cap widgets_this_run # { }

(***************************************************************************)
(* The script, one action per branch of the loop body.                     *)
(***************************************************************************)

\* lines 47-49: unsupported extension
Unsupported ==
    /\ InLoop
    /\ file_extension \notin SUPPORTED_TYPES
    /\ out' = Append(out, Element("error_unsupported", i, 0, file_extension))
    /\ i' = i + 1
    /\ UNCHANGED << uploaded_files, checked, radio, clicked, widgets_this_run, pc, df,
                    file_processed, read_calls, actions >>

\* variant: the except branch reports the error and does not `continue`
ReadRaisesFallsThrough ==
    /\ InLoop
    /\ file_extension \in SUPPORTED_TYPES
    /\ read_file(file_extension, file.content).raised
    /\ read_calls' = Append(read_calls, i)
    /\ out' = Append(out, Element("error_reading", i, 0,
                                   << read_file(file_extension, file.content).error >>))
    /\ pc' = "dedup"
    /\ UNCHANGED << uploaded_files, checked, radio, clicked, widgets_this_run, i, df,
                    file_processed, actions >>

\* lines 52-63: the reader raises
ReadRaises ==
    /\ InLoop
    /\ file_extension \in SUPPORTED_TYPES
    /\ read_file(file_extension, file.content).raised
    /\ read_calls' = Append(read_calls, i)
    /\ out' = Append(out, Element("error_reading", i, 0,
                                   << read_file(file_extension, file.content).error >>))
    /\ i' = i + 1
    /\ UNCHANGED << uploaded_files, checked, radio, clicked, widgets_this_run, pc, df,
                    file_processed, actions >>

\* lines 52-68: the file is read and the table is empty
EmptyFile ==
    /\ InLoop
    /\ file_extension \in SUPPORTED_TYPES
    /\ LET got == read_file(file_extension, file.content)
       IN  /\ ~got.raised
           /\ df_empty(got.df)
           /\ df' = got.df
    /\ read_calls' = Append(read_calls, i)
    /\ out' = Append(out, Element("warning_empty", i, 0, << >>))
    /\ i' = i + 1
    /\ UNCHANGED << uploaded_files, checked, radio, clicked, widgets_this_run, pc,
                    file_processed, actions >>

\* lines 52-74: the file is read and previewed
Preview ==
    /\ InLoop
    /\ file_extension \in SUPPORTED_TYPES
    /\ LET got == read_file(file_extension, file.content)
       IN  /\ ~got.raised
           /\ ~df_empty(got.df)
           /\ df' = got.df
           /\ out' = Append(out, Element("preview", i, 0, got.df.rows))
    /\ read_calls' = Append(read_calls, i)
    /\ pc' = "dedup"
    /\ UNCHANGED << uploaded_files, checked, radio, clicked, widgets_this_run, i,
                    file_processed, actions >>

\* a widget of this file is already registered in this run: Streamlit raises,
\* nothing catches it, the run ends and the page shows the exception
DuplicateWidget ==
    /\ pc \in { "dedup", "fill", "chart", "convert" }
    /\ duplicate_widget
    /\ out' = Append(out, Element("exception", i, 0, << >>))
    /\ pc' = "crashed"
    /\ UNCHANGED << uploaded_files, checked, radio, clicked, widgets_this_run, i, df,
                    file_processed, read_calls, actions >>

\* lines 78-79: the box is ticked and df.duplicated() raises on a list or dict
\* cell; nothing catches it
RemoveDuplicatesRaises ==
    /\ pc = "dedup"
    /\ ~duplicate_widget
    /\ remove_duplicates_box(file.name) \in checked
    /\ unhashable(df)
    /\ widgets_this_run' = widgets_this_run \cup next_widgets
    /\ out' = Append(out, Element("exception", i, 0, << >>))
    /\ pc' = "crashed"
    /\ UNCHANGED << uploaded_files, checked, radio, clicked, i, df, file_processed,
                    read_calls, actions >>

\* lines 78-84
RemoveDuplicates ==
    /\ pc = "dedup"
    /\ ~duplicate_widget
    /\ ~(remove_duplicates_box(file.name) \in checked /\ unhashable(df))
    /\ widgets_this_run' = widgets_this_run \cup next_widgets
    /\ IF remove_duplicates_box(file.name) \in checked
       THEN LET duplicate_count == duplicated_sum(df)
            IN  IF duplicate_count > 0
                THEN /\ df' = drop_duplicates(df)
                     /\ out' = Append(out, Element("duplicates_removed", i, duplicate_count, << >>))
                ELSE /\ df' = df
                     /\ out' = Append(out, Element("no_duplicates", i, 0, << >>))
       ELSE UNCHANGED << df, out >>
    /\ pc' = "fill"
    /\ UNCHANGED << uploaded_files, checked, radio, clicked, i, file_processed,
                    read_calls, actions >>

\* lines 86-92
FillMissing ==
    /\ pc = "fill"
    /\ ~duplicate_widget
    /\ widgets_this_run' = widgets_this_run \cup next_widgets
    /\ IF fill_missing_box(file.name) \in checked
       THEN LET missing_count == isnull_sum(df)
            IN  IF missing_count > 0
                THEN /\ df' = fillna(df, Missing)
                     /\ out' = Append(out, Element("missing_filled", i, missing_count, << >>))
                ELSE /\ df' = df
                     /\ out' = Append(out, Element("no_missing", i, 0, << >>))
       ELSE UNCHANGED << df, out >>
    /\ pc' = "chart"
    /\ UNCHANGED << uploaded_files, checked, radio, clicked, i, file_processed,
                    read_calls, actions >>

\* lines 96-101
ShowChart ==
    /\ pc = "chart"
    /\ ~duplicate_widget
    /\ widgets_this_run' = widgets_this_run \cup next_widgets
    /\ IF show_chart_box(file.name) \in checked
       THEN LET numeric_df == select_dtypes_number(df)
            IN  IF ~df_empty(numeric_df)
                THEN out' = Append(out, Element("bar_chart", i, 0, numeric_df.rows))
                ELSE out' = Append(out, Element("warning_no_numeric", i, 0, << >>))
       ELSE UNCHANGED out
    /\ pc' = "convert"
    /\ UNCHANGED << uploaded_files, checked, radio, clicked, i, df, file_processed,
                    read_calls, actions >>

conversion_type == radio[file.name]
file_name == file_name_of(file.name, conversion_type)

\* what the try of lines 118-139 does up to the download button
converted == convert(df, conversion_type)
convert_raises == converted.raised \/ download_button(file_name) \in widgets_this_run

\* lines 105-109: the button was not clicked
NotClicked ==
    /\ pc = "convert"
    /\ ~duplicate_widget
    /\ clicked # convert_button(file.name)
    /\ widgets_this_run' = widgets_this_run \cup next_widgets
    /\ i' = i + 1
    /\ pc' = "file"
    /\ UNCHANGED << uploaded_files, checked, radio, clicked, df, file_processed, out,
                    read_calls, actions >>

\* lines 109-139: the button was clicked and the conversion succeeds
ConvertFile ==
    /\ pc = "convert"
    /\ ~duplicate_widget
    /\ clicked = convert_button(file.name)
    /\ ~convert_raises
    /\ widgets_this_run' =
           widgets_this_run \cup next_widgets \cup { download_button(file_name) }
    /\ out' = out \o
           << Element("download", i, 0, << file_name, converted.data, converted.mime >>),
              Element("success_converted", i, 0, conversion_type) >>
    /\ file_processed' = TRUE
    /\ i' = i + 1
    /\ pc' = "file"
    /\ UNCHANGED << uploaded_files, checked, radio, clicked, df, read_calls, actions >>

\* variant: the flag is set before the try
ConvertRaisesFlagSet ==
    /\ pc = "convert"
    /\ ~duplicate_widget
    /\ clicked = convert_button(file.name)
    /\ convert_raises
    /\ widgets_this_run' = widgets_this_run \cup next_widgets
    /\ out' = Append(out, Element("error_converting", i, 0, << converted.error >>))
    /\ file_processed' = TRUE
    /\ i' = i + 1
    /\ pc' = "file"
    /\ UNCHANGED << uploaded_files, checked, radio, clicked, df, read_calls, actions >>

\* lines 109-142: the button was clicked and the conversion raises
ConvertRaises ==
    /\ pc = "convert"
    /\ ~duplicate_widget
    /\ clicked = convert_button(file.name)
    /\ convert_raises
    /\ widgets_this_run' = widgets_this_run \cup next_widgets
    /\ out' = Append(out, Element("error_converting", i, 0, << converted.error >>))
    /\ i' = i + 1
    /\ pc' = "file"
    /\ UNCHANGED << uploaded_files, checked, radio, clicked, df, file_processed,
                    read_calls, actions >>

\* lines 145-148: after the loop
Aggregate ==
    /\ pc = "file"
    /\ i > Len(uploaded_files)
    /\ out' = Append(out, [kind |-> IF file_processed THEN "processing_complete"
                                    ELSE "no_files_converted",
                           idx |-> 0, name |-> << >>, n |-> 0, data |-> << >>])
    /\ pc' = "idle"
    /\ UNCHANGED << uploaded_files, checked, radio, clicked, widgets_this_run, i, df,
                    file_processed, read_calls, actions >>

(***************************************************************************)
(* The user.  Ticking a box, choosing a radio option or clicking a button  *)
(* of the page stores the widget's new value and re-runs the script from   *)
(* the top (lines 40-41: file_processed = False, then the loop).           *)
(***************************************************************************)
Rerun ==
    /\ pc' = "file"
    /\ i' = 1
    /\ df' = NoTable
    /\ file_processed' = FALSE
    /\ out' = << >>
    /\ read_calls' = << >>
    /\ widgets_this_run' = { }
    /\ actions' = actions + 1
    /\ UNCHANGED uploaded_files

CanInteract(widget) ==
    /\ Stopped
    /\ actions < MaxActions
    /\ widget \in widgets_this_run

Toggle(widget) ==
    /\ CanInteract(widget)
    /\ checked' = IF widget \in checked THEN checked \ { widget } ELSE checked \cup { widget }
    /\ clicked' = NoWidget
    /\ UNCHANGED radio
    /\ Rerun

Names == { uploaded_files[k].name : k \in DOMAIN uploaded_files }

ToggleRemoveDuplicates == \E name \in Names : Toggle(remove_duplicates_box(name))

ToggleFillMissing == \E name \in Names : Toggle(fill_missing_box(name))

ToggleShowChart == \E name \in Names : Toggle(show_chart_box(name))

SelectConversion ==
    \E name \in Names : \E k \in DOMAIN conversion_options :
        /\ CanInteract(convert_radio(name))
        /\ radio[name] # conversion_options[k]
        /\ radio' = [radio EXCEPT ![name] = conversion_options[k]]
        /\ clicked' = NoWidget
        /\ UNCHANGED checked
        /\ Rerun

ClickConvert ==
    \E name \in Names :
        /\ CanInteract(convert_button(name))
        /\ clicked' = convert_button(name)
        /\ UNCHANGED << checked, radio >>
        /\ Rerun

(***************************************************************************)
(* The batches the model uploads.                                          *)
(***************************************************************************)
Columns == << "k", "v" >>

\* a pool of files, one per way through the loop body
PoolGood == UploadedFile(<< "a", ".", "C", "S", "V" >>,
                Data(Columns, << << "1", Null >>, << "1", Null >>, << "2", "x" >> >>))
PoolUnsupported == UploadedFile(<< "b", ".", "p", "d", "f" >>,
                Data(Columns, << << "1", "x" >> >>))
PoolGarbage == UploadedFile(<< "c" >> \o dot_json, Garbage)
PoolNested == UploadedFile(<< "e" >> \o dot_json,
                Data(Columns, << << "1", Nested >>, << Null, Nested >> >>))
Pool == { PoolGood, PoolUnsupported, PoolGarbage, PoolNested }

PoolBatches == UNION { [1..n -> Pool] : n \in 1..MaxFiles }

\* one file with an upper-case extension and any table of up to MaxRows rows,
\* the header-only file among them
RowKinds == { << "1", "x" >>, << "1", Null >>, << Null, "x" >> }
TableBatches ==
    { << UploadedFile(<< "T", ".", "C", "S", "V" >>, Data(Columns, rows)) >> :
        rows \in UNION { [1..n -> RowKinds] : n \in 0..MaxRows } }

\* one file with a one-row table under every spelling of a name
Stems == { << "a" >>,
           << "a" >> \o dot_csv,
           << "r" >> \o dot_txt \o << "_", "b" >>,
           << "n" >> \o dot_json \o dot_xlsx,
           << >> }
Endings == { dot_csv, << ".", "C", "S", "V" >>, << ".", "C", "s", "v" >>,
             dot_xlsx, << ".", "X", "L", "S", "X" >>,
             dot_json, << ".", "J", "s", "o", "n" >>,
             dot_txt, << ".", "T", "X", "T" >>,
             << ".", "p", "d", "f" >>, << >> }
FileNames == { stem \o ending : stem \in Stems, ending \in Endings } \ { << >> }
NameBatches ==
    { << UploadedFile(name, Data(Columns, << << "1", "x" >> >>)) >> : name \in FileNames }

\* a header-only file uploaded beside a file of the same name
PoolEmpty == UploadedFile(PoolGood.name, Data(Columns, << >>))
EmptyBatches == { << PoolGood, PoolEmpty >>, << PoolEmpty, PoolGood >> }

\* the batch of three of the specification's testable properties (one unsupported
\* file, one that fails to parse, one valid), and a file that fails to parse
\* between two files that parse
ScenarioBatches == { << PoolUnsupported, PoolGarbage, PoolGood >>,
                     << PoolGood, PoolGarbage, PoolNested >> }

Batches ==
    PoolBatches \cup ScenarioBatches \cup TableBatches \cup NameBatches \cup EmptyBatches

Init ==
    /\ uploaded_files \in Batches
    /\ checked = { }
    /\ radio = [name \in { uploaded_files[k].name : k \in DOMAIN uploaded_files } |->
                   conversion_options[1]]
    /\ clicked = NoWidget
    /\ widgets_this_run = { }
    /\ pc = "file"
    /\ i = 1
    /\ df = NoTable
    /\ file_processed = FALSE
    /\ out = << >>
    /\ read_calls = << >>
    /\ actions = 0

Next ==
    \/ Unsupported
    \/ ReadRaises
    \/ EmptyFile
    \/ Preview
    \/ DuplicateWidget
    \/ RemoveDuplicatesRaises
    \/ RemoveDuplicates
    \/ FillMissing
    \/ ShowChart
    \/ NotClicked
    \/ ConvertFile
    \/ ConvertRaises
    \/ Aggregate
    \/ ToggleRemoveDuplicates
    \/ ToggleFillMissing
    \/ ToggleShowChart
    \/ SelectConversion
    \/ ClickConvert

Spec == Init /\ [][Next]_vars

(***************************************************************************)
(* Properties.  What a property says about a file is stated from the file  *)
(* itself (its name and what its bytes hold), not from the script's        *)
(* variables.                                                              *)
(***************************************************************************)
Files == DOMAIN uploaded_files

\* the elements the current run has written about file j, in order
Of(j) == LET About(e) == e.idx = j IN SelectSeq(out, About)

KindsOf(j) == { Of(j)[k].kind : k \in DOMAIN Of(j) }

\* the extension of a name is supported in some letter case
Accepted(name) == \E ext \in SUPPORTED_TYPES : lower(splitext_ext(name)) = ext

Unparsable(j) == Accepted(uploaded_files[j].name) /\ ~uploaded_files[j].content.parses

ZeroRows(j) ==
    /\ Accepted(uploaded_files[j].name)
    /\ uploaded_files[j].content.parses
    /\ uploaded_files[j].content.rows = << >>

AtFile(j) == pc = "file" /\ i = j /\ j \in Files

\* the script is inside the cleaning, chart or export steps of file j
Working(j) == i = j /\ pc \in { "dedup", "fill", "chart", "convert" }

\* the loop goes on with the next file and the converted flag is as it was
NextFile ==
    /\ pc' = "file"
    /\ i' = i + 1
    /\ file_processed' = file_processed

\* the file is skipped before any of its widgets exists
Continues == NextFile /\ widgets_this_run' = widgets_this_run

\* what a run shows for a file with an unsupported extension
C1_Rejected ==
    \A j \in Files : ~Accepted(uploaded_files[j].name) =>
        /\ \A k \in DOMAIN read_calls : read_calls[k] # j
        /\ ~Working(j)
        /\ KindsOf(j) \subseteq { "error_unsupported" }
        /\ Len(Of(j)) = IF j < i THEN 1 ELSE 0

\* the step of the loop at such a file, and at an accepted one
C1_Step ==
    \A j \in Files : AtFile(j) =>
        IF Accepted(uploaded_files[j].name)
        THEN read_calls' = Append(read_calls, j)
        ELSE /\ Continues
             /\ df' = df
             /\ read_calls' = read_calls
             /\ Len(out') = Len(out) + 1
             /\ out'[Len(out')].kind = "error_unsupported"
             /\ out'[Len(out')].idx = j

\* C1: a file whose extension is not supported is never handed to a reader, gets
\* exactly one rejection message, and the loop goes on with the next file; a file
\* whose extension is supported in any letter case is handed to a reader.
C1_ExtensionGate == [] C1_Rejected /\ [][C1_Step]_vars

\* an unsupported file was rejected and the next file, whose extension is in
\* upper case, was read and previewed
C1_Witness ==
    \E j \in Files :
        /\ j + 1 \in Files
        /\ ~Accepted(uploaded_files[j].name)
        /\ KindsOf(j) = { "error_unsupported" }
        /\ splitext_ext(uploaded_files[j + 1].name) \notin SUPPORTED_TYPES
        /\ "preview" \in KindsOf(j + 1)

\* what a run shows for a file that does not parse
C2_Skipped ==
    \A j \in Files : Unparsable(j) =>
        /\ ~Working(j)
        /\ KindsOf(j) \subseteq { "error_reading" }
        /\ Len(Of(j)) = IF j < i THEN 1 ELSE 0
        /\ \A k \in DOMAIN Of(j) :
               /\ Of(j)[k].name = uploaded_files[j].name
               /\ Of(j)[k].data = << "ParserError" >>

\* the step of the loop at such a file
C2_Step ==
    \A j \in Files : (AtFile(j) /\ Unparsable(j)) =>
        /\ Continues
        /\ Len(out') = Len(out) + 1
        /\ out'[Len(out')].kind = "error_reading"

\* C2: when the reader raises, the error is reported with the file's name and the
\* error text, nothing else is shown for the file, no table (not the one of the
\* previous file either) reaches its cleaning, chart or export steps, and the loop
\* goes on with the next file.
C2_ReadErrorSkipsFile == [] C2_Skipped /\ [][C2_Step]_vars

\* a file that does not parse came after a file that left a table in df, and the
\* file after it was read
C2_Witness ==
    \E j \in Files :
        /\ j - 1 \in Files
        /\ j + 1 \in Files
        /\ "preview" \in KindsOf(j - 1)
        /\ Unparsable(j)
        /\ KindsOf(j) = { "error_reading" }
        /\ KindsOf(j + 1) # { }
        /\ \E k \in DOMAIN read_calls : read_calls[k] = j + 1

\* what a run shows for a file of zero rows
C3_OnlyReported ==
    \A j \in Files : ZeroRows(j) =>
        /\ ~Working(j)
        /\ KindsOf(j) \subseteq { "warning_empty" }
        /\ Len(Of(j)) = IF j < i THEN 1 ELSE 0

\* the step of the loop at such a file
C3_Step ==
    \A j \in Files : (AtFile(j) /\ ZeroRows(j)) =>
        /\ Continues
        /\ Len(out') = Len(out) + 1
        /\ out'[Len(out')].kind = "warning_empty"

\* C3: a file that parses to zero rows is only reported with the empty warning
\* (not the read error): it never reaches the cleaning, chart or export steps,
\* gets no download and does not set the converted flag.
C3_EmptyFileOnlyReported == [] C3_OnlyReported /\ [][C3_Step]_vars

\* a header-only file was reported in a run in which the user had ticked a box and
\* clicked Convert for a file of the same name, which got its download
C3_Witness ==
    \E j \in Files :
        /\ ZeroRows(j)
        /\ KindsOf(j) = { "warning_empty" }
        /\ remove_duplicates_box(uploaded_files[j].name) \in checked
        /\ clicked = convert_button(uploaded_files[j].name)
        /\ \E k \in Files : "download" \in KindsOf(k)

\* what a run shows for a file whose conversion raised
C4_NoDownload ==
    \A j \in Files : "error_converting" \in KindsOf(j) =>
        /\ "download" \notin KindsOf(j)
        /\ "success_converted" \notin KindsOf(j)
        /\ \A k \in DOMAIN Of(j) : Of(j)[k].kind = "error_converting" =>
               /\ Of(j)[k].name = uploaded_files[j].name
               /\ Of(j)[k].data = << "ValueError" >>

\* the step of the script at the clicked button of such a file
C4_Step ==
    \A j \in Files :
        ( /\ i = j
          /\ pc = "convert"
          /\ clicked = convert_button(uploaded_files[j].name)
          /\ convert(df, radio[uploaded_files[j].name]).raised ) =>
        /\ NextFile
        /\ Len(out') = Len(out) + 1
        /\ SubSeq(out', 1, Len(out)) = out
        /\ out'[Len(out')].kind = "error_converting"
        /\ out'[Len(out')].idx = j

\* C4: when the serialisation raises, the error is reported with the file's name
\* and the error text, the file gets no download, the converted flag is not set
\* by it, and the loop goes on with the next file.
C4_ConvertErrorWithheld == [] C4_NoDownload /\ [][C4_Step]_vars

\* the conversion of one file raised, and the file after it was processed to the
\* end of the loop body
C4_Witness ==
    \E j \in Files :
        /\ KindsOf(j) = { "preview", "error_converting" }
        /\ j + 1 \in Files
        /\ "preview" \in KindsOf(j + 1)
        /\ pc = "idle"

Aggregates == { "processing_complete", "no_files_converted" }

\* C5: every run over a non-empty batch ends with exactly one aggregate message,
\* written after everything else, which is "processing complete" exactly when a
\* file of the batch got a download in that run.
C5_OneAggregateMessage ==
    Stopped =>
        /\ out # << >>
        /\ \A k \in DOMAIN out : out[k].kind \in Aggregates <=> k = Len(out)
        /\ out[Len(out)].kind = "processing_complete" <=>
               \E k \in DOMAIN out : out[k].kind = "download"

\* the extension the claim gives each target
CanonicalExtension(conversion) ==
    IF conversion = CSV THEN dot_csv
    ELSE IF conversion = Excel THEN dot_xlsx
    ELSE IF conversion = JSON THEN dot_json
    ELSE dot_txt

\* C6: the file name of every download is the uploaded name with only its final
\* extension replaced by the extension of the chosen target.
C6_DownloadName ==
    \A k \in DOMAIN out : out[k].kind = "download" =>
        out[k].data[1] =
            splitext_root(out[k].name) \o CanonicalExtension(radio[out[k].name])

\* C7: no error of a file's steps ends the run: when the run stops, every file has
\* been handled, no uncaught exception is on the page and the aggregate message
\* is the last element.
C7_ErrorsCaughtPerFile ==
    Stopped =>
        /\ i = Len(uploaded_files) + 1
        /\ \A j \in Files : Of(j) # << >>
        /\ \A k \in DOMAIN out : out[k].kind # "exception"
        /\ out # << >> /\ out[Len(out)].kind \in Aggregates

\* the rows of file j as its reader returns them
Parsed(j) == uploaded_files[j].content.rows

DedupTicked(j) == remove_duplicates_box(uploaded_files[j].name) \in checked
FillTicked(j) == fill_missing_box(uploaded_files[j].name) \in checked

\* the rows that equal no earlier row, in their original order
FirstOccurrences(rows) ==
    LET first == { r \in DOMAIN rows : \A q \in 1..(r - 1) : rows[q] # rows[r] }
        Nth(k) == CHOOSE r \in first : Cardinality({ q \in first : q < r }) = k - 1
    IN  [k \in 1..Cardinality(first) |-> rows[Nth(k)]]

\* C8: with Remove Duplicates ticked the table after the step holds the first
\* occurrences of the parsed rows in their order, the count reported is the
\* number of rows removed, a table without duplicates is reported as such, and
\* the result has no duplicate left; with the box not ticked nothing is reported.
C8_Deduplicated ==
    \A j \in Files : (i = j /\ pc = "fill") =>
        LET removed == Len(Parsed(j)) - Len(df.rows)
            last == out[Len(out)]
        IN  IF DedupTicked(j)
            THEN /\ df.rows = FirstOccurrences(Parsed(j))
                 /\ last.idx = j
                 /\ last.kind = IF removed > 0 THEN "duplicates_removed" ELSE "no_duplicates"
                 /\ last.n = removed
                 /\ duplicated_sum(df) = 0
                 /\ FirstOccurrences(df.rows) = df.rows
            ELSE /\ df.rows = Parsed(j)
                 /\ last.kind = "preview"

\* a duplicate was removed from between rows that stay: the first and the third
\* row of the file are equal and the second differs
C8_Witness ==
    \E j \in Files :
        /\ i = j /\ pc = "fill" /\ DedupTicked(j)
        /\ Len(Parsed(j)) >= 3
        /\ Parsed(j)[1] = Parsed(j)[3]
        /\ Parsed(j)[1] # Parsed(j)[2]
        /\ out[Len(out)].kind = "duplicates_removed"
        /\ Len(df.rows) = 2

\* the rows the fill step of file j starts from
BeforeFill(j) == IF DedupTicked(j) THEN FirstOccurrences(Parsed(j)) ELSE Parsed(j)

NullCells(rows) ==
    { rc \in (DOMAIN rows) \X (DOMAIN Columns) : rows[rc[1]][rc[2]] = Null }

QuotedMissing == << "\"", "Missing", "\"" >>

\* C9: with Fill Missing Values ticked the count reported is the number of null
\* cells of the table at that point (after the deduplication when that is ticked
\* too), the table that the chart and the export see has "Missing" in every cell
\* that was null and no null cell, so that a second fill would count 0, and a
\* JSON download shows "Missing" and never null.
C9_Filled ==
    \A j \in Files : FillTicked(j) =>
        /\ (i = j /\ pc \in { "chart", "convert" }) =>
               /\ DOMAIN df.rows = DOMAIN BeforeFill(j)
               /\ \A r \in DOMAIN df.rows : \A c \in DOMAIN Columns :
                      df.rows[r][c] = IF BeforeFill(j)[r][c] = Null THEN "Missing"
                                      ELSE BeforeFill(j)[r][c]
               /\ isnull_sum(df) = 0
        /\ (i = j /\ pc = "chart") =>
               LET nulls == Cardinality(NullCells(BeforeFill(j)))
                   last == out[Len(out)]
               IN  /\ last.idx = j
                   /\ last.kind = IF nulls > 0 THEN "missing_filled" ELSE "no_missing"
                   /\ last.n = nulls
        /\ \A k \in DOMAIN Of(j) :
               /\ Of(j)[k].kind = "bar_chart" =>
                      \A r \in DOMAIN Of(j)[k].data :
                          \A c \in DOMAIN Of(j)[k].data[r] : Of(j)[k].data[r][c] # Null
               /\ (Of(j)[k].kind = "download" /\ radio[uploaded_files[j].name] = JSON) =>
                      LET records == Of(j)[k].data[2]
                      IN  /\ DOMAIN records = DOMAIN BeforeFill(j)
                          /\ \A r \in DOMAIN records : \A c \in DOMAIN Columns :
                                 /\ records[r][c][2] # << "null" >>
                                 /\ BeforeFill(j)[r][c] = Null =>
                                        records[r][c][2] = QuotedMissing

\* a table with a null cell in its numeric column was filled and downloaded as
\* JSON
C9_Witness ==
    \E j \in Files :
        /\ FillTicked(j)
        /\ \E r \in DOMAIN Parsed(j) : Parsed(j)[r][1] = Null
        /\ radio[uploaded_files[j].name] = JSON
        /\ \E k \in DOMAIN Of(j) :
               /\ Of(j)[k].kind = "download"
               /\ \E r \in DOMAIN Of(j)[k].data[2] :
                      Of(j)[k].data[2][r][1][2] = QuotedMissing
        /\ "missing_filled" \in KindsOf(j)

\* what the script writes about file j when it is the only file uploaded, with
\* the values the widgets of j hold
OutputAlone(j) ==
    LET name == uploaded_files[j].name
        ext == file_extension_of(name)
        got == read_file(ext, uploaded_files[j].content)
        t0 == got.df
        dedup == DedupTicked(j)
        t1 == IF dedup /\ duplicated_sum(t0) > 0 THEN drop_duplicates(t0) ELSE t0
        fill == FillTicked(j)
        t2 == IF fill /\ isnull_sum(t1) > 0 THEN fillna(t1, Missing) ELSE t1
        numeric == select_dtypes_number(t2)
        made == convert(t2, radio[name])
        E(kind, n, data) == Element(kind, j, n, data)
    IN  IF ext \notin SUPPORTED_TYPES THEN << E("error_unsupported", 0, ext) >>
        ELSE IF got.raised THEN << E("error_reading", 0, << got.error >>) >>
        ELSE IF df_empty(t0) THEN << E("warning_empty", 0, << >>) >>
        ELSE IF dedup /\ unhashable(t0)
        THEN << E("preview", 0, t0.rows), E("exception", 0, << >>) >>
        ELSE << E("preview", 0, t0.rows) >>
             \o (IF ~dedup THEN << >>
                 ELSE IF duplicated_sum(t0) > 0
                 THEN << E("duplicates_removed", duplicated_sum(t0), << >>) >>
                 ELSE << E("no_duplicates", 0, << >>) >>)
             \o (IF ~fill THEN << >>
                 ELSE IF isnull_sum(t1) > 0
                 THEN << E("missing_filled", isnull_sum(t1), << >>) >>
                 ELSE << E("no_missing", 0, << >>) >>)
             \o (IF show_chart_box(name) \notin checked THEN << >>
                 ELSE IF ~df_empty(numeric) THEN << E("bar_chart", 0, numeric.rows) >>
                 ELSE << E("warning_no_numeric", 0, << >>) >>)
             \o (IF clicked # convert_button(name) THEN << >>
                 ELSE IF made.raised THEN << E("error_converting", 0, << made.error >>) >>
                 ELSE << E("download", 0,
                           << file_name_of(name, radio[name]), made.data, made.mime >>),
                         E("success_converted", 0, radio[name]) >>)

SameElements(a, b) ==
    /\ Len(a) = Len(b)
    /\ \A k \in DOMAIN a :
           /\ a[k].kind = b[k].kind
           /\ a[k].n = b[k].n
           /\ a[k].data = b[k].data

\* C10: the files are handled in upload order and each on its own: when the run
\* stops, what the page shows for a file is what the script shows for that file
\* uploaded alone with the same values of its own widgets, whatever the other
\* files of the batch are and whatever was ticked, chosen or clicked for them.
C10_FilesIndependent ==
    /\ \A k \in DOMAIN out : \A m \in DOMAIN out :
           (k < m /\ out[m].idx # 0) => out[k].idx <= out[m].idx
    /\ Stopped => \A j \in Files : SameElements(Of(j), OutputAlone(j))

====
